---------------------------- MODULE Spec2Model ----------------------------
(***************************************************************************)
(* Model of VaccineCleaner.py: the line scrubbing loop of clean_ma_file,   *)
(* the Perforce checkout / write / submit sequence around it, and the      *)
(* batch loop of CleanerApp.clean_pasted_files.                            *)
(*                                                                         *)
(* A line of text is a sequence of tokens (words and white space), so that *)
(* `in`, strip() and startswith() are computed on the text and not taken   *)
(* as given.  A file is a sequence of lines.                               *)
(***************************************************************************)
EXTENDS Integers, Sequences, FiniteSets, TLC

VARIABLES
    lines,          \* clean_ma_file: the lines the for loop has iterated over
    cleaned_lines,  \* clean_ma_file: cleaned_lines
    skip_lines,     \* clean_ma_file: skip_lines
    modified,       \* clean_ma_file: modified
    kept,           \* history: the indices (into lines) of the appended lines
    pc,             \* position in the program
    batch,          \* clean_pasted_files: the pasted paths, one per line
    fi,             \* clean_pasted_files: position of the for loop in batch
    cleaned_count,  \* clean_pasted_files: cleaned_count
    result_label,   \* CleanerApp.result_label
    log_output,     \* CleanerApp.log_output
    file_path,      \* clean_ma_file: file_path
    depot_path,     \* clean_ma_file: depot_path
    exc,            \* clean_ma_file: the call that raised the exception in flight
    connected,      \* the P4 object is connected
    disk,           \* the file system: the lines of each existing file
    readonly,       \* the file system: the files without S_IWRITE
    opened,         \* the Perforce server: the paths opened for edit
    ops,            \* history: what this call of clean_ma_file did, in order
    invoked,        \* history: the positions of batch clean_ma_file was called for
    entry           \* history: disk and readonly as this call of clean_ma_file began

scanVars == <<lines, cleaned_lines, skip_lines, modified, kept>>
appVars == <<batch, fi, cleaned_count, result_label, log_output>>
callVars == <<file_path, depot_path, exc, connected, ops, invoked, entry>>
worldVars == <<disk, readonly, opened>>

vars == <<scanVars, pc, appVars, callVars, worldVars>>

(***************************************************************************)
(* Bounds of the model.                                                    *)
(***************************************************************************)
MaxLines == 12      \* longest scanned file, in lines
MaxOther == 3       \* lines of a scanned file that are not FillerLine
MaxBatch == 3       \* most paths pasted

(***************************************************************************)
(* Text.                                                                   *)
(***************************************************************************)
WhiteSpace == {" ", "\t", "\n"}

\* pattern in line (str.__contains__): pattern occurs as a contiguous run.
Contains(line, pattern) ==
    \E i \in 1..(Len(line) - Len(pattern) + 1) :
        SubSeq(line, i, i + Len(pattern) - 1) = pattern

RECURSIVE LStrip(_)
LStrip(s) ==
    IF s # <<>> /\ Head(s) \in WhiteSpace THEN LStrip(Tail(s)) ELSE s

RECURSIVE RStrip(_)
RStrip(s) ==
    IF s # <<>> /\ s[Len(s)] \in WhiteSpace
    THEN RStrip(SubSeq(s, 1, Len(s) - 1))
    ELSE s

\* str.strip()
Strip(s) == RStrip(LStrip(s))

\* str.startswith(tuple)
StartsWithAny(s, prefixes) ==
    \E p \in prefixes : Len(p) <= Len(s) /\ SubSeq(s, 1, Len(p)) = p

\* A slip in line 67: `or` for `and`.
IsBlockStartEither(line) ==
    \/ Contains(line, <<"createNode", " ", "script">>)
    \/ Contains(line, <<"vaccine_gene">>)

\* Line 67: 'createNode script' in line and 'vaccine_gene' in line
IsBlockStart(line) ==
    /\ Contains(line, <<"createNode", " ", "script">>)
    /\ Contains(line, <<"vaccine_gene">>)

\* Line 74: line.strip().startswith(('addAttr', 'setAttr', '['))
InsidePrefixes == {<<"addAttr">>, <<"setAttr">>, <<"[">>}

HasInsidePrefix(line) == StartsWithAny(Strip(line), InsidePrefixes)

\* Line 75: 'createNode' not in line and 'breed_gene' not in line
NoNodeNoBreed(line) ==
    /\ ~Contains(line, <<"createNode">>)
    /\ ~Contains(line, <<"breed_gene">>)

(***************************************************************************)
(* The lines files are made of.                                            *)
(***************************************************************************)
StartLine  == <<"createNode", " ", "script", " ", "-n", " ", "vaccine_gene", "\n">>
FillerLine == <<"\t", "setAttr", " ", "x", "\n">>
PlainLine  == <<"requires", " ", "setAttr", "\n">>
NodeLine   == <<"createNode", " ", "script", " ", "-n", " ", "x", "\n">>
BreedLine  == <<"connectAttr", " ", "breed_gene", "\n">>

OtherLines == {StartLine, PlainLine, NodeLine, BreedLine}
Lines == OtherLines \cup {FillerLine}

(***************************************************************************)
(* Lines 65-83: one iteration of the for loop of clean_ma_file, on the     *)
(* loop's variables st and the line met, which is line number i.           *)
(***************************************************************************)
SkipBudget == 10

\* A slip in line 75: the early exit taken without the test for
\* 'createNode' and 'breed_gene'.
ScanLine_NoMarkerTest(st, line, i) ==
    IF IsBlockStart(line)
    THEN [st EXCEPT !.skip_lines = SkipBudget, !.modified = TRUE]
    ELSE IF st.skip_lines > 0
    THEN IF ~HasInsidePrefix(line)
         THEN [st EXCEPT !.skip_lines = 0,
                         !.cleaned_lines = Append(@, line),
                         !.kept = Append(@, i)]
         ELSE [st EXCEPT !.skip_lines = @ - 1]
    ELSE [st EXCEPT !.cleaned_lines = Append(@, line),
                    !.kept = Append(@, i)]

\* A slip in lines 77 and 83: line.strip() appended for line.
ScanLine_AppendStripped(st, line, i) ==
    IF IsBlockStart(line)
    THEN [st EXCEPT !.skip_lines = SkipBudget, !.modified = TRUE]
    ELSE IF st.skip_lines > 0
    THEN IF ~HasInsidePrefix(line) /\ NoNodeNoBreed(line)
         THEN [st EXCEPT !.skip_lines = 0,
                         !.cleaned_lines = Append(@, Strip(line)),
                         !.kept = Append(@, i)]
         ELSE [st EXCEPT !.skip_lines = @ - 1]
    ELSE [st EXCEPT !.cleaned_lines = Append(@, Strip(line)),
                    !.kept = Append(@, i)]

\* A slip in lines 70-73: no `continue` after a block-start line and the
\* skip test an `elif`, so that the block-start line reaches line 83.
ScanLine_StartFallsThrough(st, line, i) ==
    IF IsBlockStart(line)
    THEN [st EXCEPT !.skip_lines = SkipBudget, !.modified = TRUE,
                    !.cleaned_lines = Append(@, line),
                    !.kept = Append(@, i)]
    ELSE IF st.skip_lines > 0
    THEN IF ~HasInsidePrefix(line) /\ NoNodeNoBreed(line)
         THEN [st EXCEPT !.skip_lines = 0,
                         !.cleaned_lines = Append(@, line),
                         !.kept = Append(@, i)]
         ELSE [st EXCEPT !.skip_lines = @ - 1]
    ELSE [st EXCEPT !.cleaned_lines = Append(@, line),
                    !.kept = Append(@, i)]

\* Lines 67-81 written as section 4.1 of the design words them: the
\* block-start test made only while skip_lines is 0.
ScanLine_StartOnlyWhenIdle(st, line, i) ==
    IF st.skip_lines = 0 /\ IsBlockStart(line)
    THEN [st EXCEPT !.skip_lines = SkipBudget, !.modified = TRUE]
    ELSE IF st.skip_lines > 0
    THEN IF ~HasInsidePrefix(line) /\ NoNodeNoBreed(line)
         THEN [st EXCEPT !.skip_lines = 0,
                         !.cleaned_lines = Append(@, line),
                         !.kept = Append(@, i)]
         ELSE [st EXCEPT !.skip_lines = @ - 1]
    ELSE [st EXCEPT !.cleaned_lines = Append(@, line),
                    !.kept = Append(@, i)]

\* A slip in line 69: modified set where a line is skipped (line 80), not
\* where the block-start line is found.
ScanLine_ModifiedOnSkip(st, line, i) ==
    IF IsBlockStart(line)
    THEN [st EXCEPT !.skip_lines = SkipBudget]
    ELSE IF st.skip_lines > 0
    THEN IF ~HasInsidePrefix(line) /\ NoNodeNoBreed(line)
         THEN [st EXCEPT !.skip_lines = 0,
                         !.cleaned_lines = Append(@, line),
                         !.kept = Append(@, i)]
         ELSE [st EXCEPT !.skip_lines = @ - 1, !.modified = TRUE]
    ELSE [st EXCEPT !.cleaned_lines = Append(@, line),
                    !.kept = Append(@, i)]

\* A slip in line 73: the budget test admits skip_lines = 0.
ScanLine_SkipAtZero(st, line, i) ==
    IF IsBlockStart(line)
    THEN [st EXCEPT !.skip_lines = SkipBudget, !.modified = TRUE]
    ELSE IF st.skip_lines >= 0
    THEN IF ~HasInsidePrefix(line) /\ NoNodeNoBreed(line)
         THEN [st EXCEPT !.skip_lines = 0,
                         !.cleaned_lines = Append(@, line),
                         !.kept = Append(@, i)]
         ELSE [st EXCEPT !.skip_lines = @ - 1]
    ELSE [st EXCEPT !.cleaned_lines = Append(@, line),
                    !.kept = Append(@, i)]

\* A slip in lines 67-78: the skip test comes before the block-start test
\* and line 75 is missing, so a block-start line met inside a block ends it.
ScanLine_StartEndsBlock(st, line, i) ==
    IF st.skip_lines > 0
    THEN IF ~HasInsidePrefix(line)
         THEN [st EXCEPT !.skip_lines = 0,
                         !.cleaned_lines = Append(@, line),
                         !.kept = Append(@, i)]
         ELSE [st EXCEPT !.skip_lines = @ - 1]
    ELSE IF IsBlockStart(line)
    THEN [st EXCEPT !.skip_lines = SkipBudget, !.modified = TRUE]
    ELSE [st EXCEPT !.cleaned_lines = Append(@, line),
                    !.kept = Append(@, i)]

\* A slip in line 76: the early exit keeps the line and leaves skip_lines.
ScanLine_NoReset(st, line, i) ==
    IF IsBlockStart(line)
    THEN [st EXCEPT !.skip_lines = SkipBudget, !.modified = TRUE]
    ELSE IF st.skip_lines > 0
    THEN IF ~HasInsidePrefix(line) /\ NoNodeNoBreed(line)
         THEN [st EXCEPT !.cleaned_lines = Append(@, line),
                         !.kept = Append(@, i)]
         ELSE [st EXCEPT !.skip_lines = @ - 1]
    ELSE [st EXCEPT !.cleaned_lines = Append(@, line),
                    !.kept = Append(@, i)]

ScanLine(st, line, i) ==
    IF IsBlockStart(line)
    THEN [st EXCEPT !.skip_lines = SkipBudget, !.modified = TRUE]
    ELSE IF st.skip_lines > 0
    THEN IF ~HasInsidePrefix(line) /\ NoNodeNoBreed(line)
         THEN [st EXCEPT !.skip_lines = 0,
                         !.cleaned_lines = Append(@, line),
                         !.kept = Append(@, i)]
         ELSE [st EXCEPT !.skip_lines = @ - 1]
    ELSE [st EXCEPT !.cleaned_lines = Append(@, line),
                    !.kept = Append(@, i)]

\* Lines 61-63: the loop's variables before the first iteration.
ScanStart ==
    [cleaned_lines |-> <<>>, skip_lines |-> 0, modified |-> FALSE, kept |-> <<>>]

\* Lines 61-83 on a whole file.
RECURSIVE ScanFrom(_, _, _)
ScanFrom(st, ls, i) ==
    IF i > Len(ls) THEN st ELSE ScanFrom(ScanLine(st, ls[i], i), ls, i + 1)

Scrub(ls) == ScanFrom(ScanStart, ls, 1)

ScanState ==
    [cleaned_lines |-> cleaned_lines, skip_lines |-> skip_lines,
     modified |-> modified, kept |-> kept]

(***************************************************************************)
(* SpecScrub: the scrubbing loop alone, on every file of up to MaxLines    *)
(* lines of which at most MaxOther are not FillerLine.  The file is read   *)
(* as the loop goes: the state after i iterations is the loop's result on  *)
(* the file made of the first i lines.                                     *)
(***************************************************************************)
NumOther(ls) == Cardinality({i \in 1..Len(ls) : ls[i] # FillerLine})

InitScrub ==
    /\ lines = <<>>
    /\ cleaned_lines = ScanStart.cleaned_lines
    /\ skip_lines = ScanStart.skip_lines
    /\ modified = ScanStart.modified
    /\ kept = ScanStart.kept
    /\ pc = "scan"
    /\ batch = <<>>
    /\ fi = 1
    /\ cleaned_count = 0
    /\ result_label = ""
    /\ log_output = <<>>
    /\ file_path = <<>>
    /\ depot_path = <<>>
    /\ exc = "none"
    /\ connected = FALSE
    /\ disk = <<>>
    /\ readonly = {}
    /\ opened = {}
    /\ ops = <<>>
    /\ invoked = {}
    /\ entry = [disk |-> disk, readonly |-> readonly]

LoopStep(line) ==
    /\ pc = "scan"
    /\ Len(lines) < MaxLines
    /\ NumOther(Append(lines, line)) <= MaxOther
    /\ LET st == ScanLine(ScanState, line, Len(lines) + 1)
       IN  /\ cleaned_lines' = st.cleaned_lines
           /\ skip_lines' = st.skip_lines
           /\ modified' = st.modified
           /\ kept' = st.kept
    /\ lines' = Append(lines, line)
    /\ UNCHANGED <<pc, appVars, callVars, worldVars>>

NextScrub == \E line \in Lines : LoopStep(line)

SpecScrub == InitScrub /\ [][NextScrub]_vars

(***************************************************************************)
(* Paths.  A path is a sequence of tokens too: a drive, separators, names  *)
(* and an extension.                                                       *)
(***************************************************************************)
PathA == <<"D:", "\\", "Potter", "\\", "potter", "\\", "a", ".ma">>
PathB == <<"/", "tmp", "/", "b", ".ma">>
PathC == <<"D:", "\\", "Potter", "\\", "notes", ".txt">>

Paths == {PathA, PathB, PathC}

\* What the files can hold.
InfectedDoc == <<PlainLine, StartLine, FillerLine, PlainLine>>
CleanDoc == <<PlainLine, FillerLine>>
Docs == {InfectedDoc, CleanDoc}

\* str.lower(), token by token.
Lower(tok) ==
    IF tok = "Potter" THEN "potter" ELSE IF tok = "D:" THEN "d:" ELSE tok

LowerAll(s) == [i \in 1..Len(s) |-> Lower(s[i])]

\* str.find(): the first position of tok, 0 when there is none (Python: -1).
Find(s, tok) ==
    IF \E i \in 1..Len(s) : s[i] = tok
    THEN CHOOSE i \in 1..Len(s) : s[i] = tok /\ \A j \in 1..(i - 1) : s[j] # tok
    ELSE 0

\* str.replace(old, new), token by token.
Replace(s, old, new) == [i \in 1..Len(s) |-> IF s[i] = old THEN new ELSE s[i]]

\* os.path.splitdrive
SplitDrive(path) ==
    IF path # <<>> /\ path[1] = "D:"
    THEN [drive |-> <<path[1]>>, tail |-> Tail(path)]
    ELSE [drive |-> <<>>, tail |-> path]

\* A slip in line 23: find() on tail, not on tail.lower().
local_to_perforce_path_CaseSensitive(local_path) ==
    LET tail == SplitDrive(local_path).tail
        index == Find(tail, "potter")
    IN  IF index # 0
        THEN <<"//">> \o Replace(SubSeq(tail, index, Len(tail)), "\\", "/")
        ELSE local_path

\* Lines 18-31.
local_to_perforce_path(local_path) ==
    LET tail == SplitDrive(local_path).tail
        index == Find(LowerAll(tail), "potter")
    IN  IF index # 0
        THEN <<"//">> \o Replace(SubSeq(tail, index, Len(tail)), "\\", "/")
        ELSE local_path

\* Line 210: os.path.exists(file_path) and file_path.endswith('.ma')
IsValidPath(path) ==
    /\ path \in DOMAIN disk
    /\ path # <<>>
    /\ path[Len(path)] = ".ma"

(***************************************************************************)
(* The log, and the record of what a call of clean_ma_file did.            *)
(***************************************************************************)
Logged(msg, arg) == Append(log_output, [msg |-> msg, arg |-> arg])

Did(op, arg, ok) == Append(ops, [op |-> op, arg |-> arg, ok |-> ok])

\* A slip in lines 109-111: the disconnect at the end of the try body, not
\* in a finally block, so an uncaught exception leaves without it.
Raise_NoFinally(op, kind) ==
    IF kind = "PermissionError"
    THEN /\ log_output' = Logged("Error: Could not modify", file_path)
         /\ exc' = "none"
         /\ pc' = "finally"
    ELSE /\ exc' = op
         /\ pc' = "aborted"
         /\ UNCHANGED log_output

\* Lines 105-111: a PermissionError raised by op is caught and logged, any
\* other exception goes through the finally block and out of clean_ma_file.
Raise(op, kind) ==
    IF kind = "PermissionError"
    THEN /\ log_output' = Logged("Error: Could not modify", file_path)
         /\ exc' = "none"
         /\ pc' = "finally"
    ELSE /\ exc' = op
         /\ pc' = "finally"
         /\ UNCHANGED log_output

(***************************************************************************)
(* Init: the window is up, some paths are pasted, nothing is clicked yet.  *)
(***************************************************************************)
Batches == UNION {[1..n -> Paths] : n \in 0..MaxBatch}

Init ==
    /\ batch \in Batches
    /\ disk \in [Paths -> Docs]
    /\ disk[PathC] = CleanDoc
    /\ readonly = Paths
    /\ opened = {}
    /\ pc = "idle"
    /\ fi = 1
    /\ cleaned_count = 0
    /\ result_label = ""
    /\ log_output = <<>>
    /\ file_path = <<>>
    /\ depot_path = <<>>
    /\ exc = "none"
    /\ connected = FALSE
    /\ ops = <<>>
    /\ invoked = {}
    /\ entry = [disk |-> disk, readonly |-> readonly]
    /\ lines = <<>>
    /\ cleaned_lines = ScanStart.cleaned_lines
    /\ skip_lines = ScanStart.skip_lines
    /\ modified = ScanStart.modified
    /\ kept = ScanStart.kept

(***************************************************************************)
(* CleanerApp.clean_pasted_files, lines 193-217.                           *)
(***************************************************************************)
\* Lines 193-207: the click on "Clean Files".
CleanPastedFiles ==
    /\ pc = "idle"
    /\ log_output' = <<>>
    /\ IF batch = <<>>
       THEN /\ result_label' = "No valid file paths provided."
            /\ pc' = "done"
            /\ UNCHANGED cleaned_count
       ELSE /\ cleaned_count' = 0
            /\ pc' = "loop"
            /\ UNCHANGED result_label
    /\ UNCHANGED <<scanVars, batch, fi, callVars, worldVars>>

\* Lines 208-215: one path of the batch; a valid one is handed to
\* clean_ma_file (lines 35-36).
ForPath ==
    /\ pc = "loop"
    /\ fi <= Len(batch)
    /\ LET path == Strip(batch[fi])
       IN  IF IsValidPath(path)
           THEN /\ file_path' = path
                /\ invoked' = invoked \cup {fi}
                /\ entry' = [disk |-> disk, readonly |-> readonly]
                /\ ops' = <<>>
                /\ exc' = "none"
                /\ depot_path' = <<>>
                /\ lines' = <<>>
                /\ cleaned_lines' = <<>>
                /\ skip_lines' = 0
                /\ modified' = FALSE
                /\ kept' = <<>>
                /\ pc' = "connect"
                /\ UNCHANGED <<fi, log_output>>
           ELSE /\ log_output' = Logged("Invalid path", path)
                /\ fi' = fi + 1
                /\ UNCHANGED <<pc, scanVars, file_path, depot_path, exc, ops,
                               invoked, entry>>
    /\ UNCHANGED <<batch, cleaned_count, result_label, connected, worldVars>>

\* Lines 216-217: the batch is through.
ForEnd ==
    /\ pc = "loop"
    /\ fi > Len(batch)
    /\ result_label' = "Processed files."
    /\ pc' = "done"
    /\ UNCHANGED <<scanVars, batch, fi, cleaned_count, log_output, callVars,
                   worldVars>>

(***************************************************************************)
(* clean_ma_file, lines 35-111.  Each call on Perforce or on the file      *)
(* system ends in one of its outcomes r: a Perforce call succeeds or       *)
(* raises P4Exception; a file call succeeds, raises PermissionError, or    *)
(* raises another exception (FileNotFoundError, UnicodeDecodeError, ...).  *)
(* A call that raises leaves the file system and the server as they were.  *)
(***************************************************************************)
\* Lines 39-46: p4.connect() connects, returns a false value, or raises.
Connect(r) ==
    /\ pc = "connect"
    /\ ops' = Did("connect", <<>>, r = "ok")
    /\ CASE r = "ok" ->
              /\ connected' = TRUE
              /\ depot_path' = local_to_perforce_path(file_path)
              /\ log_output' = Logged("Checking out file",
                                      local_to_perforce_path(file_path))
              /\ pc' = "edit"
              /\ UNCHANGED exc
         [] r = "falsy" ->
              /\ log_output' = Logged("Failed to connect to Perforce.", <<>>)
              /\ pc' = "finally"
              /\ UNCHANGED <<connected, depot_path, exc>>
         [] OTHER ->
              /\ exc' = "connect"
              /\ pc' = "finally"
              /\ UNCHANGED <<connected, depot_path, log_output>>
    /\ UNCHANGED <<scanVars, batch, fi, cleaned_count, result_label,
                   file_path, invoked, entry, worldVars>>

\* A slip in line 53: no `return` in the handler of the failed checkout.
Edit_NoReturn(r) ==
    /\ pc = "edit"
    /\ ops' = Did("edit", depot_path, r = "ok")
    /\ IF r = "ok"
       THEN /\ opened' = opened \cup {depot_path}
            /\ UNCHANGED log_output
       ELSE /\ log_output' = Logged("Error checking out file", depot_path)
            /\ UNCHANGED opened
    /\ pc' = "unset_readonly"
    /\ UNCHANGED <<scanVars, batch, fi, cleaned_count, result_label,
                   file_path, depot_path, exc, connected, invoked, entry, disk,
                   readonly>>

\* Lines 48-53: p4.run('edit', depot_path).
Edit(r) ==
    /\ pc = "edit"
    /\ ops' = Did("edit", depot_path, r = "ok")
    /\ IF r = "ok"
       THEN /\ opened' = opened \cup {depot_path}
            /\ pc' = "unset_readonly"
            /\ UNCHANGED log_output
       ELSE /\ log_output' = Logged("Error checking out file", depot_path)
            /\ pc' = "finally"
            /\ UNCHANGED opened
    /\ UNCHANGED <<scanVars, batch, fi, cleaned_count, result_label,
                   file_path, depot_path, exc, connected, invoked, entry, disk,
                   readonly>>

\* Lines 12-15 and 55: unset_readonly(file_path).
UnsetReadonly(r) ==
    /\ pc = "unset_readonly"
    /\ ops' = Did("unset_readonly", file_path, r = "ok")
    /\ IF r = "ok"
       THEN /\ readonly' = readonly \ {file_path}
            /\ pc' = "read"
            /\ UNCHANGED <<log_output, exc>>
       ELSE /\ Raise("unset_readonly", r)
            /\ UNCHANGED readonly
    /\ UNCHANGED <<scanVars, batch, fi, cleaned_count, result_label,
                   file_path, depot_path, connected, invoked, entry, disk, opened>>

\* Lines 58-59: the file is read.
ReadLines(r) ==
    /\ pc = "read"
    /\ ops' = Did("read", file_path, r = "ok")
    /\ IF r = "ok"
       THEN /\ lines' = disk[file_path]
            /\ pc' = "scan_file"
            /\ UNCHANGED <<log_output, exc>>
       ELSE /\ Raise("read", r)
            /\ UNCHANGED lines
    /\ UNCHANGED <<cleaned_lines, skip_lines, modified, kept, batch, fi,
                   cleaned_count, result_label, file_path, depot_path,
                   connected, invoked, entry, worldVars>>

\* A slip in line 86: the write and the submit made whatever modified is.
AfterScan_Always(m) == "write"

\* Line 86: where the call goes once the loop is through.
AfterScan(m) == IF m THEN "write" ELSE "finally"

\* Lines 61-86 and 102-103: the scrubbing loop on the lines read, and the
\* test of modified.
ScanFile ==
    /\ pc = "scan_file"
    /\ LET st == Scrub(lines)
       IN  /\ cleaned_lines' = st.cleaned_lines
           /\ skip_lines' = st.skip_lines
           /\ modified' = st.modified
           /\ kept' = st.kept
           /\ pc' = AfterScan(st.modified)
           /\ log_output' = IF AfterScan(st.modified) = "write"
                            THEN log_output
                            ELSE Logged("No changes were made", file_path)
    /\ UNCHANGED <<lines, batch, fi, cleaned_count, result_label, callVars,
                   worldVars>>

\* Lines 87-89: cleaned_lines are written over the file.
WriteLines(r) ==
    /\ pc = "write"
    /\ ops' = Did("write", file_path, r = "ok")
    /\ IF r = "ok"
       THEN /\ disk' = [disk EXCEPT ![file_path] = cleaned_lines]
            /\ log_output' = Logged("Cleaned", file_path)
            /\ pc' = "fetch_change"
            /\ UNCHANGED exc
       ELSE /\ Raise("write", r)
            /\ UNCHANGED disk
    /\ UNCHANGED <<scanVars, batch, fi, cleaned_count, result_label,
                   file_path, depot_path, connected, invoked, entry, readonly,
                   opened>>

\* Lines 93-95 and 99-100: p4.fetch_change().
FetchChange(r) ==
    /\ pc = "fetch_change"
    /\ ops' = Did("fetch_change", depot_path, r = "ok")
    /\ IF r = "ok"
       THEN /\ pc' = "run_submit"
            /\ UNCHANGED log_output
       ELSE /\ log_output' = Logged("Error submitting file", depot_path)
            /\ pc' = "revert"
    /\ UNCHANGED <<scanVars, batch, fi, cleaned_count, result_label,
                   file_path, depot_path, exc, connected, invoked, entry, worldVars>>

\* A slip in lines 99-101: the revert in a `finally` of the submit, made
\* whether the submit failed or not.
RunSubmit_RevertAlways(r) ==
    /\ pc = "run_submit"
    /\ ops' = Did("run_submit", depot_path, r = "ok")
    /\ IF r = "ok"
       THEN /\ opened' = opened \ {depot_path}
            /\ log_output' = Logged("Submitted", depot_path)
       ELSE /\ log_output' = Logged("Error submitting file", depot_path)
            /\ UNCHANGED opened
    /\ pc' = "revert"
    /\ UNCHANGED <<scanVars, batch, fi, cleaned_count, result_label,
                   file_path, depot_path, exc, connected, invoked, entry, disk,
                   readonly>>

\* Lines 97-100: p4.run_submit(change).
RunSubmit(r) ==
    /\ pc = "run_submit"
    /\ ops' = Did("run_submit", depot_path, r = "ok")
    /\ IF r = "ok"
       THEN /\ opened' = opened \ {depot_path}
            /\ log_output' = Logged("Submitted", depot_path)
            /\ pc' = "finally"
       ELSE /\ log_output' = Logged("Error submitting file", depot_path)
            /\ pc' = "revert"
            /\ UNCHANGED opened
    /\ UNCHANGED <<scanVars, batch, fi, cleaned_count, result_label,
                   file_path, depot_path, exc, connected, invoked, entry, disk,
                   readonly>>

\* Line 101: p4.run('revert', depot_path), in the handler of P4Exception.
Revert(r) ==
    /\ pc = "revert"
    /\ ops' = Did("revert", depot_path, r = "ok")
    /\ IF r = "ok"
       THEN /\ opened' = opened \ {depot_path}
            /\ UNCHANGED exc
       ELSE /\ exc' = "revert"
            /\ UNCHANGED opened
    /\ pc' = "finally"
    /\ UNCHANGED <<scanVars, appVars, file_path, depot_path, connected,
                   invoked, entry, disk, readonly>>

\* Lines 109-111, then line 212 or the way out of clean_pasted_files: the
\* finally block disconnects; the call returns to the for loop, or its
\* exception leaves clean_pasted_files, which catches nothing.
Disconnect ==
    /\ pc = "finally"
    /\ ops' = Did("disconnect", <<>>, TRUE)
    /\ connected' = FALSE
    /\ IF exc = "none"
       THEN /\ cleaned_count' = cleaned_count + 1
            /\ fi' = fi + 1
            /\ pc' = "loop"
       ELSE /\ pc' = "aborted"
            /\ UNCHANGED <<cleaned_count, fi>>
    /\ UNCHANGED <<scanVars, batch, result_label, log_output, file_path,
                   depot_path, exc, invoked, entry, worldVars>>

ConnectOutcomes == {"ok", "falsy", "P4Exception"}
P4Outcomes == {"ok", "P4Exception"}
FileOutcomes == {"ok", "PermissionError", "Exception"}

Next ==
    \/ CleanPastedFiles
    \/ ForPath
    \/ ForEnd
    \/ \E r \in ConnectOutcomes : Connect(r)
    \/ \E r \in P4Outcomes : Edit(r)
    \/ \E r \in FileOutcomes : UnsetReadonly(r)
    \/ \E r \in FileOutcomes : ReadLines(r)
    \/ ScanFile
    \/ \E r \in FileOutcomes : WriteLines(r)
    \/ \E r \in P4Outcomes : FetchChange(r)
    \/ \E r \in P4Outcomes : RunSubmit(r)
    \/ \E r \in P4Outcomes : Revert(r)
    \/ Disconnect

Spec == Init /\ [][Next]_vars

(***************************************************************************)
(* Properties of the scrubbing loop.  Every state of SpecScrub is the      *)
(* result of the loop on the file `lines`.                                 *)
(***************************************************************************)
KeptSet == {kept[k] : k \in 1..Len(kept)}

\* Line i of the file is in cleaned_lines, with its text unchanged.
KeptUnchanged(i) ==
    \E k \in 1..Len(kept) :
        /\ kept[k] = i
        /\ k <= Len(cleaned_lines)
        /\ cleaned_lines[k] = lines[i]

\* The claims' words for a line l: it is a block-start line (contains
\* 'createNode script' and 'vaccine_gene'), its trimmed content starts with
\* 'addAttr', 'setAttr' or '[', it contains neither 'createNode' nor
\* 'breed_gene'.
SaysStart(l) ==
    /\ Contains(l, <<"createNode", " ", "script">>)
    /\ Contains(l, <<"vaccine_gene">>)

SaysInside(l) ==
    LET t == Strip(l)
    IN  t # <<>> /\ t[1] \in {"addAttr", "setAttr", "["}

SaysClear(l) ==
    /\ \A i \in 1..Len(l) : l[i] # "createNode"
    /\ \A i \in 1..Len(l) : l[i] # "breed_gene"

LineTests ==
    [l \in Lines |-> [start  |-> SaysStart(l),
                      inside |-> SaysInside(l),
                      clear  |-> SaysClear(l)]]

StartAt(i)  == LineTests[lines[i]].start
InsideAt(i) == LineTests[lines[i]].inside
ClearAt(i)  == LineTests[lines[i]].clear

\* Line j is a block-start line, the n lines after it all start (trimmed)
\* with an inside-block prefix, and a line without such a prefix follows.
BlockAt(j, n) ==
    /\ StartAt(j)
    /\ j + n + 1 <= Len(lines)
    /\ \A m \in (j + 1)..(j + n) : InsideAt(m)
    /\ ~InsideAt(j + n + 1)

BlockRemoved(j, n) ==
    /\ \A m \in j..(j + n) : m \notin KeptSet
    /\ modified

\* C1 as stated: a block-start line followed by at most 9 inside-block
\* lines is removed with those lines, the line after the block is always
\* present in cleaned_lines unchanged, and modified is true.
C1_NextLineAlwaysKept ==
    \A j \in 1..Len(lines) : StartAt(j) =>
        \A n \in 0..(SkipBudget - 1) :
            BlockAt(j, n) => BlockRemoved(j, n) /\ KeptUnchanged(j + n + 1)

\* C1 (amended): a block-start line followed by at most 9 inside-block
\* lines is removed with those lines and modified is true; the line after
\* the block is present in cleaned_lines unchanged exactly when it contains
\* neither 'createNode' nor 'breed_gene', and is discarded when it does.
C1_BlockRemoved ==
    \A j \in 1..Len(lines) : StartAt(j) =>
        \A n \in 0..(SkipBudget - 1) :
            BlockAt(j, n) =>
                /\ BlockRemoved(j, n)
                /\ ClearAt(j + n + 1) => KeptUnchanged(j + n + 1)
                /\ ~ClearAt(j + n + 1) => (j + n + 1) \notin KeptSet

C1_Witness ==
    /\ Len(lines) = SkipBudget + 1
    /\ BlockAt(1, SkipBudget - 1)
    /\ BlockRemoved(1, SkipBudget - 1)
    /\ KeptUnchanged(SkipBudget + 1)

\* C2: cleaned_lines is a subsequence of the file (the kept lines, in
\* their order, with their text), and a removed line is a block-start line
\* or lies in the run of removed lines that follows a block-start line.
C2_OnlyBlockLinesRemoved ==
    /\ Len(kept) = Len(cleaned_lines)
    /\ \A k \in 1..Len(kept) :
        /\ kept[k] \in 1..Len(lines)
        /\ cleaned_lines[k] = lines[kept[k]]
        /\ k < Len(kept) => kept[k] < kept[k + 1]
    /\ \A i \in (1..Len(lines)) \ KeptSet :
        \E j \in 1..i :
            /\ StartAt(j)
            /\ \A m \in j..i : m \notin KeptSet

C2_Witness ==
    /\ Len(lines) >= 5
    /\ 1 \in KeptSet
    /\ 2 \notin KeptSet
    /\ 3 \notin KeptSet
    /\ Len(lines) \in KeptSet
    /\ \E i \in KeptSet : InsideAt(i)

NoBlockStart(ls) == \A i \in 1..Len(ls) : ~LineTests[ls[i]].start

\* C3: a file without a block-start line comes out unchanged, with
\* modified = false.
C3_NoStartUnchanged ==
    NoBlockStart(lines) => ~modified /\ cleaned_lines = lines

C3_Witness ==
    /\ NoBlockStart(lines)
    /\ \E i \in 1..Len(lines) : InsideAt(i)
    /\ \E i \in 1..Len(lines) : lines[i] = NodeLine
    /\ \E i \in 1..Len(lines) : lines[i] = BreedLine
    /\ cleaned_lines = lines

\* C4: scrubbing cleaned_lines again yields cleaned_lines, with
\* modified = false on that second pass.
C4_Idempotent ==
    LET again == Scrub(cleaned_lines)
    IN  /\ again.cleaned_lines = cleaned_lines
        /\ ~again.modified

C4_Witness ==
    /\ modified
    /\ cleaned_lines # <<>>
    /\ Len(cleaned_lines) < Len(lines)
    /\ \E k \in 1..Len(cleaned_lines) : SaysInside(cleaned_lines[k])
    /\ Scrub(cleaned_lines).cleaned_lines = cleaned_lines

\* Line j is a block-start line, the k-1 lines after it have an
\* inside-block prefix, and the k-th has none and contains neither
\* 'createNode' nor 'breed_gene'.
EarlyExitAt(j, k) ==
    /\ StartAt(j)
    /\ j + k <= Len(lines)
    /\ \A m \in (j + 1)..(j + k - 1) : InsideAt(m)
    /\ ~InsideAt(j + k)
    /\ ClearAt(j + k)

\* C5: at an early exit (k < 10) skip_lines is 0 once the k-th line is
\* handled, that line is kept, and so is every later line up to the next
\* block-start line.
C5_EarlyExit ==
    \A j \in 1..Len(lines) : StartAt(j) =>
        \A k \in 1..(SkipBudget - 1) :
            EarlyExitAt(j, k) =>
                /\ Len(lines) = j + k => skip_lines = 0
                /\ \A m \in (j + k)..Len(lines) :
                    (\A q \in (j + k)..m : ~StartAt(q)) => KeptUnchanged(m)

C5_Witness ==
    \E k \in 2..(SkipBudget - 1) :
        /\ Len(lines) >= k + 4
        /\ EarlyExitAt(1, k)
        /\ InsideAt(k + 2)
        /\ KeptUnchanged(k + 2)
        /\ StartAt(k + 3)
        /\ (k + 4) \notin KeptSet

(***************************************************************************)
(* Properties of clean_ma_file and clean_pasted_files, under Spec.         *)
(***************************************************************************)
\* The last call of clean_ma_file is over: it returned, or its exception
\* left clean_pasted_files.  ops is what that call did.
Returned == pc \in {"loop", "done", "aborted"} /\ ops # <<>>

OpDone(op) == \E i \in 1..Len(ops) : ops[i].op = op
OpOk(op) == \E i \in 1..Len(ops) : ops[i].op = op /\ ops[i].ok
OpFailed(op) == \E i \in 1..Len(ops) : ops[i].op = op /\ ~ops[i].ok

\* C6: the file is written only if modified is true, what a completed
\* write leaves on disk is cleaned_lines, a changelist is created or
\* submitted only after a completed write, and with modified false the
\* file keeps the lines that were read and nothing is created or submitted.
C6_WriteGated ==
    /\ (OpDone("write") \/ OpDone("fetch_change") \/ OpDone("run_submit"))
           => modified
    /\ OpOk("write") => disk[file_path] = cleaned_lines
    /\ \A i \in 1..Len(ops) :
           ops[i].op \in {"fetch_change", "run_submit"}
               => \E j \in 1..(i - 1) : ops[j].op = "write" /\ ops[j].ok
    /\ (OpOk("read") /\ ~OpOk("write")) => disk[file_path] = lines

C6_Witness ==
    /\ Returned
    /\ modified
    /\ OpOk("write")
    /\ OpOk("run_submit")
    /\ disk[file_path] = cleaned_lines
    /\ cleaned_lines # lines

\* The processing of the file failed after its checkout.
FailedAfterEdit ==
    \/ OpFailed("unset_readonly")
    \/ OpFailed("read")
    \/ OpFailed("write")
    \/ OpFailed("fetch_change")
    \/ OpFailed("run_submit")

\* C7: when the checkout succeeded and the processing of the file then
\* failed, the checkout is reverted by the time clean_ma_file is over: the
\* file is not left opened for edit.
C7_RevertedOnFailure ==
    (Returned /\ OpOk("edit") /\ FailedAfterEdit)
        => OpDone("revert") /\ depot_path \notin opened

\* C8: when the checkout succeeded and the scrub found nothing to change,
\* the file is no longer opened for edit once clean_ma_file is over.
C8_ReleasedWhenUnchanged ==
    (Returned /\ OpOk("edit") /\ OpOk("read") /\ ~modified)
        => depot_path \notin opened

\* C9: when creating or submitting the changelist failed, a revert of the
\* same depot path was issued, an error line is in the log, the submit was
\* not tried again, and clean_ma_file returned normally.
C9_SubmitFailureHandled ==
    (Returned /\ (OpFailed("fetch_change") \/ OpFailed("run_submit")))
        => /\ \E i \in 1..Len(ops) :
                  ops[i].op = "revert" /\ ops[i].arg = depot_path
           /\ \E k \in 1..Len(log_output) :
                  log_output[k] = [msg |-> "Error submitting file",
                                   arg |-> depot_path]
           /\ Cardinality({i \in 1..Len(ops) :
                               ops[i].op = "fetch_change"}) = 1
           /\ Cardinality({i \in 1..Len(ops) :
                               ops[i].op = "run_submit"}) <= 1
           /\ exc = "none"
           /\ pc # "aborted"

\* C10: whatever failed on a file (its checkout, a permission, the read,
\* the write, the submit, the revert), once clean_pasted_files is over
\* clean_ma_file has been called for every valid path of the batch.
C10_BatchIsolation ==
    (pc \in {"done", "aborted"} /\ exc \in {"none", "read", "write", "revert"})
        => \A j \in 1..Len(batch) :
               IsValidPath(Strip(batch[j])) => j \in invoked

InLog(msg, arg) ==
    \E k \in 1..Len(log_output) : log_output[k] = [msg |-> msg, arg |-> arg]

\* C11: a failed connection is logged and ends the batch (no call of
\* clean_ma_file is begun once a connection has failed), and nothing but a
\* failed connection ends the batch early.
C11_OnlyConnectFailureEndsBatch ==
    /\ (Returned /\ OpFailed("connect"))
           => InLog("Failed to connect to Perforce.", <<>>)
    /\ pc = "connect" => ~InLog("Failed to connect to Perforce.", <<>>)
    /\ pc = "aborted" => exc = "connect"

\* The Perforce calls on the depot path, in the order the claim gives them.
P4Rank(op) ==
    CASE op = "edit" -> 1
      [] op = "fetch_change" -> 2
      [] op = "run_submit" -> 3
      [] op = "revert" -> 4
      [] OTHER -> 0

OpCount(op) == Cardinality({i \in 1..Len(ops) : ops[i].op = op})

OkBefore(op, i) == \E j \in 1..(i - 1) : ops[j].op = op /\ ops[j].ok

\* C12: a call of clean_ma_file that connected issues one checkout, at
\* most one changelist creation, one submit and one revert, in that order;
\* the changelist is created and submitted only after a successful checkout
\* and a completed write, and the revert is issued only after the creation
\* or the submit of the changelist failed.
C12_OneEditSubmitRevert ==
    /\ (Returned /\ OpOk("connect")) => OpCount("edit") = 1
    /\ \A op \in {"edit", "fetch_change", "run_submit", "revert"} :
           OpCount(op) <= 1
    /\ \A i, j \in 1..Len(ops) :
           (i < j /\ P4Rank(ops[i].op) > 0 /\ P4Rank(ops[j].op) > 0)
               => P4Rank(ops[i].op) < P4Rank(ops[j].op)
    /\ \A i \in 1..Len(ops) :
           /\ ops[i].op \in {"fetch_change", "run_submit"}
                  => OkBefore("edit", i) /\ OkBefore("write", i)
           /\ ops[i].op = "revert"
                  => \E j \in 1..(i - 1) :
                         /\ ops[j].op \in {"fetch_change", "run_submit"}
                         /\ ~ops[j].ok

C12_Witness ==
    /\ Returned
    /\ OpOk("edit")
    /\ OpOk("fetch_change")
    /\ OpFailed("run_submit")
    /\ OpOk("revert")

\* C13: when the checkout fails, the error is logged, the file keeps its
\* permissions and its content (no unset_readonly, no read, no write), no
\* changelist is created or submitted and nothing is reverted, and
\* clean_ma_file returns to the for loop, which goes on with the next path.
C13_CheckoutFailureSkips ==
    OpFailed("edit") =>
        /\ InLog("Error checking out file", depot_path)
        /\ \A op \in {"unset_readonly", "read", "write", "fetch_change",
                      "run_submit", "revert"} : ~OpDone(op)
        /\ disk = entry.disk
        /\ readonly = entry.readonly
        /\ exc = "none"
        /\ pc \in {"finally", "loop", "done"}
        /\ pc = "loop" => \A j \in invoked : j < fi

C13_Witness ==
    /\ Returned
    /\ OpFailed("edit")
    /\ pc = "loop"
    /\ fi <= Len(batch)
    /\ IsValidPath(Strip(batch[fi]))
    /\ file_path \in readonly

(***************************************************************************)
(* The scanner of section 4.1 of the design, on the lines files are made   *)
(* of: m is its state (out, skip, modified), l the line met.               *)
(***************************************************************************)
MachineStart == [out |-> <<>>, skip |-> 0, modified |-> FALSE]

\* What the machine does with a line met while skip > 0.
MachineInBlock(m, l) ==
    IF LineTests[l].inside
    THEN [m EXCEPT !.skip = @ - 1]
    ELSE IF LineTests[l].clear
    THEN [m EXCEPT !.skip = 0, !.out = Append(@, l)]
    ELSE [m EXCEPT !.skip = @ - 1]

\* Section 4.1 as written: the block-start test applies when skip = 0.
MachineStep(m, l) ==
    IF m.skip = 0 /\ LineTests[l].start
    THEN [m EXCEPT !.skip = SkipBudget, !.modified = TRUE]
    ELSE IF m.skip > 0
    THEN MachineInBlock(m, l)
    ELSE [m EXCEPT !.out = Append(@, l)]

\* Section 4.1 with the block-start test applied to every line: a
\* block-start line met while skip > 0 is discarded and sets skip to 10.
MachineStepAnySkip(m, l) ==
    IF LineTests[l].start
    THEN [m EXCEPT !.skip = SkipBudget, !.modified = TRUE]
    ELSE IF m.skip > 0
    THEN MachineInBlock(m, l)
    ELSE [m EXCEPT !.out = Append(@, l)]

RECURSIVE MachineRun(_, _, _)
MachineRun(m, ls, i) ==
    IF i > Len(ls) THEN m ELSE MachineRun(MachineStep(m, ls[i]), ls, i + 1)

RECURSIVE MachineRunAnySkip(_, _, _)
MachineRunAnySkip(m, ls, i) ==
    IF i > Len(ls)
    THEN m
    ELSE MachineRunAnySkip(MachineStepAnySkip(m, ls[i]), ls, i + 1)

\* C14 as stated: the loop produces the cleaned_lines and the modified of
\* the machine of section 4.1, which applies the block-start test only
\* when skip = 0.
C14_RefinesSection41 ==
    LET m == MachineRun(MachineStart, lines, 1)
    IN  cleaned_lines = m.out /\ modified = m.modified

\* C14 (amended): the loop produces the cleaned_lines and the modified of
\* the machine of section 4.1 with the block-start test applied to every
\* line, whatever skip is: a block-start line met while skip > 0 is
\* discarded and sets skip back to 10.
C14_RefinesAnySkip ==
    LET m == MachineRunAnySkip(MachineStart, lines, 1)
    IN  cleaned_lines = m.out /\ modified = m.modified /\ skip_lines = m.skip

C14_Witness ==
    /\ \E j \in 2..Len(lines) : StartAt(j) /\ (j - 1) \notin KeptSet
    /\ cleaned_lines = MachineRunAnySkip(MachineStart, lines, 1).out
    /\ cleaned_lines # MachineRun(MachineStart, lines, 1).out

\* C15: modified is true exactly when some line of the file contains both
\* 'createNode script' and 'vaccine_gene', and no iteration of the loop
\* takes it from true back to false.
C15_ModifiedIffStart ==
    /\ [](modified <=> \E i \in 1..Len(lines) : StartAt(i))
    /\ [][modified => modified']_vars

C15_Witness ==
    /\ modified
    /\ Len(lines) >= 3
    /\ StartAt(1)
    /\ skip_lines = 0
    /\ \A i \in 2..Len(lines) : ~StartAt(i)

\* Line k does not end a block: its trimmed content starts with an
\* inside-block prefix, or it contains 'createNode' or 'breed_gene'.
StaysInBlockAt(k) == InsideAt(k) \/ ~ClearAt(k)

\* Lines j+1 .. j+n are all non-start lines.
NoStartIn(j, n) == \A k \in (j + 1)..(j + n) : ~StartAt(k)

\* C16: at every step of the scan 0 <= skip_lines <= 10; a non-start line
\* is discarded only while skip_lines > 0; no 11 consecutive non-start lines
\* are all discarded; and when a block-start line is followed by 11
\* non-start inside-block lines, the first 10 are discarded and the 11th is
\* kept.
C16_SkipBudget ==
    /\ [](/\ skip_lines \in 0..SkipBudget
          /\ \A j \in 0..(Len(lines) - SkipBudget - 1) :
                 \E k \in (j + 1)..(j + SkipBudget + 1) :
                     StartAt(k) \/ k \in KeptSet
          /\ \A j \in 1..(Len(lines) - SkipBudget - 1) :
                 (/\ StartAt(j)
                  /\ NoStartIn(j, SkipBudget + 1)
                  /\ \A k \in (j + 1)..(j + SkipBudget + 1) :
                         StaysInBlockAt(k))
                 => /\ \A k \in (j + 1)..(j + SkipBudget) : k \notin KeptSet
                    /\ KeptUnchanged(j + SkipBudget + 1))
    /\ [][(/\ Len(lines') = Len(lines) + 1
           /\ ~LineTests[lines'[Len(lines')]].start
           /\ kept' = kept)
          => skip_lines > 0]_vars

C16_Witness ==
    /\ Len(lines) = SkipBudget + 2
    /\ StartAt(1)
    /\ NoStartIn(1, SkipBudget + 1)
    /\ \A k \in 2..(SkipBudget + 2) : StaysInBlockAt(k)
    /\ kept = <<SkipBudget + 2>>
    /\ skip_lines = 0

\* C17: cleaned_lines holds no line that contains both 'createNode script'
\* and 'vaccine_gene', and no block-start line of the file is kept, whatever
\* skip_lines was when the line was met.
C17_NoStartSurvives ==
    /\ \A k \in 1..Len(cleaned_lines) : ~LineTests[cleaned_lines[k]].start
    /\ \A k \in 1..Len(kept) : ~StartAt(kept[k])

\* A block-start line met inside another block (skip_lines = 10), then the
\* line that ends the block, kept.
C17_Witness ==
    /\ Len(lines) >= 3
    /\ StartAt(1) /\ StartAt(2)
    /\ ~StartAt(3) /\ KeptUnchanged(3)
    /\ cleaned_lines # <<>>

\* C18: every call of clean_ma_file ends with exactly one p4.disconnect(),
\* issued after every other version-control operation of the call, whatever
\* the exit path; no connection is open when the call has returned or when
\* the next call connects.
C18_DisconnectOnceLast ==
    /\ OpCount("disconnect") <= 1
    /\ \A i \in 1..Len(ops) : ops[i].op = "disconnect" => i = Len(ops)
    /\ Returned => /\ ops[Len(ops)].op = "disconnect"
                   /\ ~connected
    /\ pc \in {"connect", "done", "aborted"} => ~connected

\* The exit by an exception that is not a PermissionError, after a
\* successful connect and checkout.
C18_Witness ==
    /\ pc = "aborted"
    /\ exc \in {"read", "write"}
    /\ OpOk("connect")
    /\ OpOk("edit")
    /\ ops[Len(ops)].op = "disconnect"

\* The claim's words for a path: it holds the marker 'potter' in some case.
HasMarker(path) == \E i \in 1..Len(path) : path[i] \in {"potter", "Potter"}

FirstMarker(path) ==
    CHOOSE i \in 1..Len(path) :
        /\ path[i] \in {"potter", "Potter"}
        /\ \A j \in 1..(i - 1) : path[j] \notin {"potter", "Potter"}

\* '//' followed by the suffix of the path from the first occurrence of the
\* marker, every backslash a forward slash.
MarkerSuffix(path) ==
    <<"//">> \o [k \in 1..(Len(path) - FirstMarker(path) + 1) |->
                    LET tok == path[FirstMarker(path) + k - 1]
                    IN  IF tok = "\\" THEN "/" ELSE tok]

\* The depot path of the call in progress is the marker suffix of file_path,
\* and every version-control operation that names a path names that one.
ResolvedByMarker ==
    (HasMarker(file_path) /\ OpOk("connect")) =>
        /\ depot_path = MarkerSuffix(file_path)
        /\ \A i \in 1..Len(ops) :
               ops[i].op \in {"edit", "run_submit", "revert"}
                   => ops[i].arg = MarkerSuffix(file_path)

=============================================================================
